---- MODULE Spec2Model ----
(***************************************************************************)
(* pycaps: WhisperAudioTranscriber                                         *)
(* (src/src/pycaps/transcriber/whisper_audio_transcriber.py).              *)
(*                                                                         *)
(* transcribe() obtains the Whisper model (_get_model), has it transcribe  *)
(* the audio, and turns the raw result (segment records holding word       *)
(* records) into a Document of Segments, each with one Line of Words.      *)
(*                                                                         *)
(* Times are counted in ticks of 0.01 s, so the 0.01 s the code adds to a  *)
(* zero-length span is one tick; the rounding of floating-point numbers is *)
(* not modelled.  Python values are tagged records: the kind k, and the    *)
(* number n, the characters s or the items l the kind comes with.  A       *)
(* dictionary key that is missing is the value Absent.  An exception ends  *)
(* the call in pc = "raised" with the exception in error.                  *)
(***************************************************************************)
EXTENDS Integers, Sequences, FiniteSets, TLC

\* ------------------------------------------------------------------ bounds
MaxSegs == 2      \* segment records in one raw result
MaxWords == 3     \* word records in one segment record
MaxTime == 2      \* largest time stamp the engine reports, in ticks
MaxCalls == 3     \* transcribe calls on one transcriber (SpecModel)

\* --------------------------------------------------------- Python values
Digits == <<"0", "1", "2", "3", "4", "5", "6", "7", "8", "9">>

Value(k, n, s, l) == [k |-> k, n |-> n, s |-> s, l |-> l]
Absent == Value("absent", 0, <<>>, <<>>)
PyNone == Value("none", 0, <<>>, <<>>)
PyNum(n) == Value("num", n, <<>>, <<>>)
\* the string that is the decimal literal of n ticks ("0.02" for 2)
PyNumStr(n) == Value("numstr", n, <<"0", ".", "0", Digits[(n % 10) + 1]>>, <<>>)
\* any other string, as its characters
PyStr(s) == Value("str", 0, s, <<>>)
PyList(l) == Value("list", 0, <<>>, l)

Ok(x) == [ok |-> TRUE, v |-> x]
Err(type) == [ok |-> FALSE, exc |-> type]

\* d[key]: KeyError when the key is missing
Subscript(x) == IF x = Absent THEN Err("KeyError") ELSE Ok(x)

\* float(x): numbers and numeric strings convert, other strings are a
\* ValueError, anything else a TypeError
Float(x) ==
  CASE x.k = "num" -> Ok(x.n)
    [] x.k = "numstr" -> Ok(x.n)
    [] x.k = "str" -> Err("ValueError")
    [] OTHER -> Err("TypeError")

\* str(x)
Str(x) ==
  CASE x.k \in {"str", "numstr"} -> x.s
    [] x.k = "none" -> <<"N", "o", "n", "e">>
    [] x.k = "num" -> <<Digits[(x.n % 10) + 1]>>
    [] OTHER -> <<"[", "]">>

Whitespace == {" ", "\n"}

RECURSIVE LStrip(_)
LStrip(s) ==
  IF s = <<>> THEN s
  ELSE IF Head(s) \in Whitespace THEN LStrip(Tail(s)) ELSE s

RECURSIVE RStrip(_)
RStrip(s) ==
  IF s = <<>> THEN s
  ELSE IF s[Len(s)] \in Whitespace THEN RStrip(SubSeq(s, 1, Len(s) - 1)) ELSE s

\* a strip that forgets the trailing whitespace
StripLeft(s) == LStrip(s)

\* s.strip()
Strip(s) == RStrip(LStrip(s))

\* bool(x) of the values that are tested for truth
Truthy(x) ==
  CASE x.k = "absent" -> FALSE
    [] x.k = "none" -> FALSE
    [] x.k = "list" -> x.l # <<>>
    [] x.k = "str" -> x.s # <<>>
    [] x.k = "num" -> x.n # 0
    [] OTHER -> TRUE

\* ------------------------------------------------------ pycaps.common
TimeFragment(start, end) == [start |-> start, end |-> end]
Word(text, time) == [text |-> text, time |-> time]
Line(time) == [time |-> time, words |-> <<>>]
Segment(time) == [time |-> time, lines |-> <<>>]
Document == [segments |-> <<>>]

\* ------------------------------------------------------ the normalizer
\* the 0.01 s added to a zero-length span, in ticks
Bump == 1

\* a correction applied to every span, zero-length or not
CorrectedEndAlways(start, end) == start + Bump

\* lines 42-43 and 61-62: the end of a span after the zero-length correction
CorrectedEnd(start, end) == IF start = end THEN start + Bump ELSE end

\* lines 40-44 and 59-63: the time fragment of a segment or word record
ReadSpan(rec) ==
  LET a == Subscript(rec.start) IN
  IF ~a.ok THEN a ELSE
  LET s == Float(a.v) IN
  IF ~s.ok THEN s ELSE
  LET b == Subscript(rec.end) IN
  IF ~b.ok THEN b ELSE
  LET e == Float(b.v) IN
  IF ~e.ok THEN e ELSE
  Ok(TimeFragment(s.v, CorrectedEnd(s.v, e.v)))

\* a test for the key being there where its absence is meant
NoSegmentsPresent(r) == r.segments # Absent /\ ~Truthy(r.segments)

\* line 33: the raw result has no segments to process
NoSegments(r) == r.segments = Absent \/ ~Truthy(r.segments)

\* line 49: the segment record has no word list
NoWordData(rec) == rec.words = Absent \/ rec.words.k # "list"

\* lines 45-47: a segment owning one line of the same time fragment
NewSegment(time) == [Segment(time) EXCEPT !.lines = <<Line(time)>>]

\* a word put before the words already in the line
LineAddFront(seg, w) == [seg EXCEPT !.lines[1].words = <<w>> \o @]

\* line 65: line.words.add(word), the line being the segment's only one
LineAdd(seg, w) == [seg EXCEPT !.lines[1].words = Append(@, w)]

\* line 67: document.segments.add(segment)
DocumentAdd(doc, seg) == [doc EXCEPT !.segments = Append(@, seg)]

\* lines 55-57: the trimmed text of a word record
WordText(w) ==
  LET t == Subscript(w.word) IN
  IF ~t.ok THEN t ELSE Ok(Strip(Str(t.v)))

\* ------------------------------------------- what the engine may return
Times == 0..MaxTime

\* values of a start or end field that are not plain numbers
OddTimes == {Absent, PyNone, PyStr(<<"x">>), PyNumStr(1)}

\* values of a start or end field
TimeValues == {PyNum(t) : t \in Times} \cup OddTimes

\* (start, end) of a record
TimePairs == TimeValues \X TimeValues

\* values of a word record's word field
WordValues ==
  {Absent, PyNone, PyNum(7)}
    \cup {PyStr(s) : s \in {<<>>, <<" ">>, <<"\n", " ">>, <<"a">>, <<" ", "a">>,
                            <<"a", " ">>, <<" ", "a", "\n">>, <<"a", " ", "b">>,
                            <<" ", "a", " ", "b", " ">>}}

WordRecord(word, start, end) == [word |-> word, start |-> start, end |-> end]

WordA == WordRecord(PyStr(<<"a">>), PyNum(0), PyNum(1))
WordB == WordRecord(PyStr(<<" ", "b">>), PyNum(1), PyNum(2))
PlainWords == {WordA, WordB}

\* word records: any word value with good times, and a good or a blank word
\* with any pair of times
RichWords ==
  {WordRecord(t, PyNum(0), PyNum(1)) : t \in WordValues}
    \cup {WordRecord(t, p[1], p[2]) : t \in {PyStr(<<"c">>), PyStr(<<" ">>)}, p \in TimePairs}

\* sequences of up to max records, all of Plain but for at most one, at any
\* place, of Rich
OneRich(Plain, Rich, max) ==
  {IF n = 0 THEN <<>> ELSE [i \in 1..n |-> IF i = p THEN r ELSE f[i]] :
     n \in 0..max, p \in 1..max, r \in Rich \cup Plain, f \in [1..max -> Plain]}

WordLists == OneRich(PlainWords, RichWords, MaxWords)

SegmentRecord(start, end, text, words) ==
  [start |-> start, end |-> end, text |-> text, words |-> words]

PlainSegments == {SegmentRecord(PyNum(0), PyNum(2), PyStr(<<"a">>), PyList(<<WordA>>))}

\* segment records: any times, text and kind of words field around at most
\* one word, and good times around any word list
RichSegments ==
  {SegmentRecord(p[1], p[2], t, w) :
     p \in TimePairs, t \in {Absent, PyStr(<<"um">>)},
     w \in {Absent, PyNone, PyList(<<>>), PyList(<<WordB>>)}}
    \cup {SegmentRecord(PyNum(1), PyNum(2), PyStr(<<"hi">>), PyList(l)) : l \in WordLists}

SegmentLists == OneRich(PlainSegments, RichSegments, MaxSegs)

RawResult(segments) == [segments |-> segments]

RawResults ==
  {RawResult(Absent), RawResult(PyNone)} \cup {RawResult(PyList(l)) : l \in SegmentLists}

\* the few results the engine returns where the calls are what is studied
FewResults ==
  {RawResult(Absent),
   RawResult(PyList(<<SegmentRecord(PyNum(0), PyNum(0), PyStr(<<"hi">>),
                                    PyList(<<WordB, WordRecord(PyStr(<<" ">>), PyNum(1), PyNum(1))>>))>>)),
   RawResult(PyList(<<SegmentRecord(PyNum(0), PyNum(1), Absent, PyList(<<>>)),
                      SegmentRecord(Absent, PyNum(1), PyStr(<<"um">>), Absent)>>))}

\* ------------------------------------------------------------------ state
VARIABLES
  self_model_size,   \* self._model_size
  self_device,       \* self._device
  self_model,        \* self._model (self._language is only handed on to
                     \* the model's transcribe, and is left out)
  imported,          \* the whisper module has been imported (sys.modules)
  loads,             \* whisper.load_model calls so far
  loaded,            \* the ones of them that returned a model
  calls,             \* transcribe calls so far
  pc,                \* where the current transcribe call is
  model,             \* the model _get_model returned to the call
  result,            \* the raw result of the engine
  document,          \* the Document being built, then returned
  segment,           \* the Segment being built
  si,                \* index of the segment record being processed
  wi,                \* index of the word record being processed
  error              \* the exception the call raised

config == <<self_model_size, self_device>>
loader == <<self_model, imported, loads, loaded>>
locals == <<model, result, document, segment, si, wi, error>>
vars == <<config, loader, calls, pc, locals>>

NoModel == [src |-> "none", n |-> 0, size |-> "", device |-> ""]
Supplied == [src |-> "supplied", n |-> 0, size |-> "", device |-> ""]
NoDevice == "None"
NoResult == RawResult(Value("unset", 0, <<>>, <<>>))
NoDocument == [segments |-> <<>>, unset |-> TRUE]
NoSegment == [time |-> TimeFragment(0, 0), lines |-> <<>>, unset |-> TRUE]
NoError == [type |-> "", phase |-> "", info |-> <<>>]

Exception(type, phase, info) == [type |-> type, phase |-> phase, info |-> info]

\* lines 7-20, for a transcriber used with the default model size and device
Init ==
  /\ self_model_size = "base"
  /\ self_device = NoDevice
  /\ self_model \in {NoModel, Supplied}
  /\ imported = FALSE
  /\ loads = 0 /\ loaded = 0 /\ calls = 0
  /\ pc = "idle"
  /\ model = NoModel
  /\ result = NoResult
  /\ document = NoDocument
  /\ segment = NoSegment
  /\ si = 0 /\ wi = 0
  /\ error = NoError

\* lines 7-20, for every model size, device and model the caller may give
InitModel ==
  /\ self_model_size \in {"base", "tiny"}
  /\ self_device \in {NoDevice, "", "cuda"}
  /\ self_model \in {NoModel, Supplied}
  /\ imported = FALSE
  /\ loads = 0 /\ loaded = 0 /\ calls = 0
  /\ pc = "idle"
  /\ model = NoModel
  /\ result = NoResult
  /\ document = NoDocument
  /\ segment = NoSegment
  /\ si = 0 /\ wi = 0
  /\ error = NoError

\* ---------------------------------------------------------------- _get_model
\* line 75: a model is already held
Cached(m) == m # NoModel

\* lines 82-87: what whisper.load_model returns for the size and device asked
LoadedModel(n) ==
  [src |-> "loaded", n |-> n, size |-> self_model_size,
   device |-> IF self_device \notin {NoDevice, ""} THEN self_device ELSE "auto"]

\* lines 90-93: the error a failed load is reported as
LoadError == Exception("RuntimeError", "get_model", <<self_model_size, self_device>>)

\* an exception leaves transcribe: no Document is returned (si and wi stay,
\* as the place the exception came from)
Raise(exc) ==
  /\ pc' = "raised"
  /\ error' = exc
  /\ document' = NoDocument
  /\ segment' = NoSegment

\* line 22: transcribe is called (the call before it has ended)
Called(limit) ==
  /\ pc \in {"idle", "returned", "raised"}
  /\ calls < limit
  /\ calls' = calls + 1
  /\ UNCHANGED config

\* what a call starts from
Fresh ==
  /\ error' = NoError
  /\ document' = NoDocument
  /\ segment' = NoSegment
  /\ si' = 0 /\ wi' = 0

\* lines 75-76: the model held is returned
GetModelCached(limit) ==
  /\ Called(limit)
  /\ Cached(self_model)
  /\ model' = self_model
  /\ pc' = "engine"
  /\ result' = NoResult
  /\ Fresh
  /\ UNCHANGED loader

\* line 78: the whisper package cannot be imported
ImportFails(limit) ==
  /\ Called(limit)
  /\ ~Cached(self_model)
  /\ ~imported
  /\ model' = NoModel
  /\ result' = NoResult
  /\ Raise(Exception("ModuleNotFoundError", "get_model", <<>>))
  /\ si' = 0 /\ wi' = 0
  /\ UNCHANGED loader

\* lines 78-93: whisper.load_model raises
LoadFails(limit) ==
  /\ Called(limit)
  /\ ~Cached(self_model)
  /\ imported' = TRUE
  /\ loads' = loads + 1
  /\ model' = NoModel
  /\ result' = NoResult
  /\ Raise(LoadError)
  /\ si' = 0 /\ wi' = 0
  /\ UNCHANGED <<self_model, loaded>>

\* a loaded model that is returned without being kept in self._model
LoadSucceedsUnkept(limit) ==
  /\ Called(limit)
  /\ ~Cached(self_model)
  /\ imported' = TRUE
  /\ loads' = loads + 1
  /\ loaded' = loaded + 1
  /\ self_model' = self_model
  /\ model' = LoadedModel(loads + 1)
  /\ pc' = "engine"
  /\ result' = NoResult
  /\ Fresh

\* lines 78-88: whisper.load_model returns a model, which is kept
LoadSucceeds(limit) ==
  /\ Called(limit)
  /\ ~Cached(self_model)
  /\ imported' = TRUE
  /\ loads' = loads + 1
  /\ loaded' = loaded + 1
  /\ self_model' = LoadedModel(loads + 1)
  /\ model' = self_model'
  /\ pc' = "engine"
  /\ result' = NoResult
  /\ Fresh

\* ---------------------------------------------------------------- transcribe
\* line 39: result["segments"] is looked up and iterated
IterSegments(r) ==
  IF r.segments = Absent THEN Err("KeyError")
  ELSE IF r.segments.k # "list" THEN Err("TypeError")
  ELSE Ok(r.segments.l)

\* lines 26-39: the model transcribes the audio; no segments is an empty
\* Document, returned at once
EngineReturns(feed) ==
  /\ pc = "engine"
  /\ \E r \in feed :
       /\ result' = r
       /\ IF NoSegments(r)
            THEN pc' = "returned" /\ document' = Document /\ UNCHANGED <<segment, si, error>>
            ELSE IF ~IterSegments(r).ok
              THEN Raise(Exception(IterSegments(r).exc, "segments", <<>>)) /\ UNCHANGED si
              ELSE pc' = "segments" /\ document' = Document /\ si' = 1
                   /\ UNCHANGED <<segment, error>>
  /\ UNCHANGED <<config, loader, calls, model, wi>>

\* lines 26-31: the model's transcribe raises
EngineRaises ==
  /\ pc = "engine"
  /\ Raise(Exception("EngineError", "engine", <<>>))
  /\ UNCHANGED <<config, loader, calls, model, result, si, wi>>

\* lines 39-51: the next segment record
SegmentStep ==
  /\ pc = "segments"
  /\ si <= Len(result.segments.l)
  /\ LET rec == result.segments.l[si]
         span == ReadSpan(rec)
     IN IF ~span.ok
          THEN Raise(Exception(span.exc, "segment", <<>>)) /\ UNCHANGED <<si, wi>>
          ELSE IF NoWordData(rec)
            THEN IF ~Subscript(rec.text).ok
                   THEN Raise(Exception("KeyError", "segment", <<>>)) /\ UNCHANGED <<si, wi>>
                   ELSE /\ si' = si + 1
                        /\ UNCHANGED <<pc, document, segment, wi, error>>
            ELSE /\ segment' = NewSegment(span.v)
                 /\ wi' = 1
                 /\ pc' = "words"
                 /\ UNCHANGED <<document, si, error>>
  /\ UNCHANGED <<config, loader, calls, model, result>>

\* lines 53-67: the next word record of the segment, or the end of its words
WordStep ==
  /\ pc = "words"
  /\ LET words == result.segments.l[si].words.l
     IN IF wi > Len(words)
          THEN /\ document' = DocumentAdd(document, segment)
               /\ segment' = NoSegment
               /\ si' = si + 1
               /\ wi' = 0
               /\ pc' = "segments"
               /\ UNCHANGED error
          ELSE LET w == words[wi]
                   text == WordText(w)
                   span == ReadSpan(w)
               IN IF ~text.ok
                    THEN Raise(Exception(text.exc, "word", <<>>)) /\ UNCHANGED <<si, wi>>
                    ELSE IF text.v = <<>>
                      THEN /\ wi' = wi + 1
                           /\ UNCHANGED <<pc, document, segment, si, error>>
                      ELSE IF ~span.ok
                        THEN Raise(Exception(span.exc, "word", <<>>)) /\ UNCHANGED <<si, wi>>
                        ELSE /\ segment' = LineAdd(segment, Word(text.v, span.v))
                             /\ wi' = wi + 1
                             /\ UNCHANGED <<pc, document, si, error>>
  /\ UNCHANGED <<config, loader, calls, model, result>>

\* lines 69-72: the segment records are exhausted and the Document is returned
ReturnDocument ==
  /\ pc = "segments"
  /\ si > Len(result.segments.l)
  /\ pc' = "returned"
  /\ UNCHANGED <<config, loader, calls, model, result, document, segment, si, wi, error>>

Normalize ==
  \/ EngineRaises
  \/ SegmentStep
  \/ WordStep
  \/ ReturnDocument

\* one transcribe call on a transcriber, over every raw result
Next ==
  \/ GetModelCached(1)
  \/ ImportFails(1)
  \/ LoadFails(1)
  \/ LoadSucceeds(1)
  \/ EngineReturns(RawResults)
  \/ Normalize

Spec == Init /\ [][Next]_vars

\* up to MaxCalls transcribe calls on a transcriber, over a few raw results
NextModel ==
  \/ GetModelCached(MaxCalls)
  \/ ImportFails(MaxCalls)
  \/ LoadFails(MaxCalls)
  \/ LoadSucceeds(MaxCalls)
  \/ EngineReturns(FewResults)
  \/ Normalize

SpecModel == InitModel /\ [][NextModel]_vars

\* ==================================================================== claims
\* the segment records of the raw result, when it holds a list of them
Records == IF result.segments.k = "list" THEN result.segments.l ELSE <<>>

\* the call returned a Document built from a list of segment records
ReturnedFromList == pc = "returned" /\ result.segments.k = "list"

HasWordList(rec) == rec.words.k = "list"

\* the segment records that come with a word list, in input order
Kept == SelectSeq(Records, HasWordList)

\* some character of s is not whitespace
NonBlank(s) == \E i \in 1..Len(s) : s[i] \notin Whitespace

\* the indices of the word records whose text is not blank, in input order
NonBlankAt(words) ==
  SelectSeq([i \in 1..Len(words) |-> i], LAMBDA i : NonBlank(Str(words[i].word)))

\* t is s without the whitespace at its two ends
IsTrimOf(t, s) ==
  \E i \in 1..Len(s) : \E j \in i..Len(s) :
    /\ t = SubSeq(s, i, j)
    /\ s[i] \notin Whitespace /\ s[j] \notin Whitespace
    /\ \A k \in 1..(i - 1) : s[k] \in Whitespace
    /\ \A k \in (j + 1)..Len(s) : s[k] \in Whitespace

\* the number a start or end field stands for
Seconds(x) == Float(x).v

\* every Word of a Document
WordsOf(doc) ==
  UNION {UNION {{l.words[j] : j \in 1..Len(l.words)} :
                  l \in {doc.segments[i].lines[n] : n \in 1..Len(doc.segments[i].lines)}} :
           i \in 1..Len(doc.segments)}

\* every TimeFragment of a Document: of its Segments, Lines and Words
FragmentsOf(doc) ==
  {doc.segments[i].time : i \in 1..Len(doc.segments)}
    \cup UNION {{doc.segments[i].lines[n].time : n \in 1..Len(doc.segments[i].lines)} :
                  i \in 1..Len(doc.segments)}
    \cup {w.time : w \in WordsOf(doc)}

\* C1: a Document returned for a non-empty list of segment records holds as
\* many Segments as there are records
C1_SegmentCount ==
  (ReturnedFromList /\ Records # <<>>) => Len(document.segments) = Len(Records)

\* C2: a segment record without a usable words field (absent, or not a list)
\* still has its Segment in the returned Document, in its place, with one
\* Line of zero Words, and the call does not raise because of it
C2_SegmentWithoutWords ==
  /\ ReturnedFromList =>
       \A i \in 1..Len(Records) :
         ~HasWordList(Records[i]) =>
           /\ i <= Len(document.segments)
           /\ Len(document.segments[i].lines) = 1
           /\ document.segments[i].lines[1].words = <<>>
  /\ ~(/\ pc = "raised" /\ error.phase = "segment"
       /\ ~HasWordList(Records[si])
       /\ ReadSpan(Records[si]).ok)

\* C3: every TimeFragment of a returned Document has end > start
C3_EndAfterStart ==
  pc = "returned" => \A f \in FragmentsOf(document) : f.end > f.start

\* C4: every Word of a returned Document has a text of at least one
\* character that neither starts nor ends with whitespace
C4_WordTextTrimmed ==
  pc = "returned" =>
    \A w \in WordsOf(document) :
      /\ Len(w.text) >= 1
      /\ w.text[1] \notin Whitespace
      /\ w.text[Len(w.text)] \notin Whitespace

\* C4 witness: a Document was returned for a segment with a padded word and a
\* whitespace-only word, and holds the padded word trimmed
C4_Witness ==
  /\ ReturnedFromList
  /\ \E i \in 1..Len(Records) :
       /\ HasWordList(Records[i])
       /\ \E a, b \in 1..Len(Records[i].words.l) :
            /\ Records[i].words.l[a].word = PyStr(<<" ", "b">>)
            /\ Records[i].words.l[b].word = PyStr(<<"\n", " ">>)
  /\ \E w \in WordsOf(document) : w.text = <<"b">>

\* C5: transcribe never raises because of a segment record or a word record
C5_NeverFailsOnRecords ==
  pc = "raised" => error.phase \notin {"segment", "word"}

\* C6: in a returned Document the Line of every segment record that has a
\* word list holds exactly the word records whose text is not blank, in
\* input order, each with its text trimmed
C6_WordsFiltered ==
  ReturnedFromList =>
    /\ Len(document.segments) = Len(Kept)
    /\ \A k \in 1..Len(Kept) :
         LET words == Kept[k].words.l
             at == NonBlankAt(words)
             seg == document.segments[k]
         IN /\ Len(seg.lines) = 1
            /\ Len(seg.lines[1].words) = Len(at)
            /\ \A j \in 1..Len(at) :
                 /\ IsTrimOf(seg.lines[1].words[j].text, Str(words[at[j]].word))
                 /\ seg.lines[1].words[j].time.start = Seconds(words[at[j]].start)

\* C6 witness: a Document was returned for a segment whose whitespace-only
\* word stands between two valid words, and its Line holds the two
C6_Witness ==
  /\ ReturnedFromList
  /\ \E k \in 1..Len(Kept) :
       LET words == Kept[k].words.l
       IN /\ Len(words) = 3
          /\ NonBlank(Str(words[1].word))
          /\ ~NonBlank(Str(words[2].word))
          /\ NonBlank(Str(words[3].word))
          /\ words[1] # words[3]
          /\ k <= Len(document.segments)
          /\ Len(document.segments[k].lines[1].words) = 2

\* C7: for a raw result without the segments key, or with an empty segments
\* list, transcribe ends by returning an empty Document
C7_NoSegmentsEmptyDocument ==
  (/\ pc \in {"returned", "raised"}
   /\ result.segments \in {Absent, PyList(<<>>)})
    => (pc = "returned" /\ document = Document)

\* C7 witness: a raw result without the segments key was returned as an
\* empty Document
C7_Witness ==
  pc = "returned" /\ result.segments = Absent /\ document = Document

\* the fragment is the span of the record, untouched when the record has
\* end > start, and touched only when it has start = end
SpanKept(f, rec) ==
  LET span == TimeFragment(Seconds(rec.start), Seconds(rec.end))
  IN /\ span.end > span.start => f = span
     /\ f # span => span.start = span.end

\* C8: in a returned Document the TimeFragment of every record that has
\* end > start is the record's start and end, and a TimeFragment differs
\* from its record's only where the record has start = end
C8_SpanIdempotent ==
  ReturnedFromList =>
    /\ Len(document.segments) = Len(Kept)
    /\ \A k \in 1..Len(Kept) :
         LET words == Kept[k].words.l
             at == NonBlankAt(words)
             seg == document.segments[k]
         IN /\ SpanKept(seg.time, Kept[k])
            /\ \A n \in 1..Len(seg.lines) : SpanKept(seg.lines[n].time, Kept[k])
            /\ Len(seg.lines[1].words) = Len(at)
            /\ \A j \in 1..Len(at) : SpanKept(seg.lines[1].words[j].time, words[at[j]])

\* C8 witness: a Document with words was returned for a raw result all of
\* whose segment and word records have end > start
C8_Witness ==
  /\ ReturnedFromList
  /\ Len(Records) = MaxSegs
  /\ \A i \in 1..Len(Records) :
       /\ HasWordList(Records[i])
       /\ Float(Records[i].start).ok /\ Float(Records[i].end).ok
       /\ Seconds(Records[i].end) > Seconds(Records[i].start)
       /\ Records[i].words.l # <<>>
       /\ \A j \in 1..Len(Records[i].words.l) :
            LET w == Records[i].words.l[j]
            IN /\ Float(w.start).ok /\ Float(w.end).ok
               /\ Seconds(w.end) > Seconds(w.start)
  /\ Cardinality(WordsOf(document)) >= 2

\* C9: when the model cannot be obtained, transcribe raises an error that
\* carries the model size and the device, returns no Document, and has not
\* tried the load more than once in the call
C9_EngineUnavailable ==
  (pc = "raised" /\ error.phase = "get_model") =>
    /\ error.info = <<self_model_size, self_device>>
    /\ document = NoDocument
    /\ loads <= calls

\* C10: the loader succeeds at most once and the model it gave is the one
\* every later call uses; a model supplied at construction is never replaced
\* and the loader never called; a failed load leaves self._model unset, and
\* the next call tries the load again
C10_ModelLoadedOnce ==
  /\ [](/\ loaded <= 1
        /\ self_model = Supplied => loads = 0
        /\ pc = "engine" => (model = self_model /\ model # NoModel))
  /\ [][/\ self_model # NoModel => (self_model' = self_model /\ loads' = loads)
        /\ (loads' = loads + 1 /\ loaded' = loaded) =>
             (self_model' = NoModel /\ pc' = "raised")
        /\ (calls' = calls + 1 /\ self_model = NoModel /\ imported) =>
             loads' = loads + 1]_vars

\* C10 witness: after a failed load and a successful one, a third call uses
\* the model the second call loaded
C10_Witness ==
  /\ calls = 3 /\ loads = 2 /\ loaded = 1
  /\ pc = "engine"
  /\ model = self_model
  /\ model.src = "loaded" /\ model.n = 2
====
